---- MODULE Spec2Model ----
(***************************************************************************)
(* Model of the mediaoptimise ECharts plugins of Superset:                 *)
(*   - the pie transform   (mo-echarts-pie: transformProps, buildPieChart, *)
(*     formatPieLabel, transformSeriesData),                               *)
(*   - the bar transform in its two variants (mo-echarts-bar:              *)
(*     transformProps, buildEchartOptions, labelFormatter,                 *)
(*     legendOrientationBuilder),                                          *)
(*   - the render adapter (the Echart React component),                    *)
(*   - the visibility predicates of the pie control panel.                 *)
(*                                                                         *)
(* JavaScript values whose type can vary at one place are tagged records   *)
(* (Num, Str, Arr, undefined); objects are records; arrays are sequences;  *)
(* a row (an object with insertion-ordered keys) is a sequence of          *)
(* <<key, value>> entries with distinct keys.                              *)
(***************************************************************************)
EXTENDS Integers, Sequences, FiniteSets, TLC

VARIABLES
  plugin,        \* which plugin the chart is: "pie", "bar" (part_002) or "barSimple"
  queriesData,   \* chartProps.queriesData[0].data: the rows supplied by the host
  formData,      \* chartProps.formData: the options supplied by the host
  size,          \* chartProps.width / chartProps.height
  pc,            \* position in the host -> transform -> render -> effects cycle
  chartOptions,  \* the ChartSpec returned by the last transformProps call
  gen,           \* identity of the chartOptions object (one fresh object per call)
  scales,        \* domain of the categorical colour scale (names in first-use order)
  label,         \* last result of calling a label formatter of chartOptions
  seen,          \* one remembered earlier transformProps invocation
  divRef,        \* Echart: divRef.current is attached (TRUE) or null (FALSE)
  chartRef,      \* Echart: chartRef.current, 0 = undefined, else the instance id
  deps,          \* Echart: dependency values of the two effects at the last render
  effects,       \* Echart: effects scheduled by the last render, in order
  instances,     \* the ECharts instances created by init, by id
  calls,         \* calls made on ECharts since the last render, in order
  controls,      \* the control states the host passes to a visibility predicate
  visible        \* the result of the visibility predicate of each conditional control

vars == <<plugin, queriesData, formData, size, pc, chartOptions, gen, scales,
          label, seen, divRef, chartRef, deps, effects, instances, calls,
          controls, visible>>

----------------------------------------------------------------------------
(* JavaScript values *)

Num(n) == [t |-> "number", v |-> n]
Str(s) == [t |-> "string", v |-> s]
Arr(a) == [t |-> "array", v |-> a]
undefined == [t |-> "undefined"]

\* {} : the object without properties
EmptyObj == [k \in {} |-> TRUE]

\* {...a, ...b}
Spread(a, b) ==
  [k \in (DOMAIN a) \cup (DOMAIN b) |-> IF k \in DOMAIN b THEN b[k] ELSE a[k]]

\* x + "" : the string a value is converted to in a concatenation
JSString(x) ==
  CASE x.t = "number" -> ToString(x.v)
    [] x.t = "string" -> x.v
    [] OTHER -> "undefined"

Range(s) == {s[i] : i \in DOMAIN s}

\* Set.prototype.add on a Set kept in insertion order
SetAdd(s, k) == IF k \in Range(s) THEN s ELSE Append(s, k)

\* Object.keys(v)
ObjectKeys(v) == [i \in DOMAIN v |-> v[i][1]]

\* v[k]
Get(v, k) ==
  IF \E i \in DOMAIN v : v[i][1] = k
    THEN v[CHOOSE i \in DOMAIN v : v[i][1] = k][2]
    ELSE undefined

\* formatNumber(format, value) of @superset-ui/core for the formats and the
\* values (integers below 1000, strings, undefined) used here
formatNumber(format, value) ==
  CASE value.t = "undefined" -> "undefined"
    [] value.t = "string" -> "NaN"
    [] value.t = "number" /\ format = ".2f" -> ToString(value.v) \o ".00"
    [] value.t = "number" /\ format = ".0%" -> ToString(value.v * 100) \o "%"
    [] OTHER -> ToString(value.v)

----------------------------------------------------------------------------
(* Dimension Set *)

RECURSIVE AddAll(_, _)
\* el.forEach(k => keysSets.add(k))
AddAll(s, el) ==
  IF el = <<>> THEN s ELSE AddAll(SetAdd(s, Head(el)), Tail(el))

RECURSIVE keysSetsOf(_, _)
\* keys.forEach(el => el.forEach(k => keysSets.add(k))), from the Set s
keysSetsOf(s, keys) ==
  IF keys = <<>> THEN s ELSE keysSetsOf(AddAll(s, Head(keys)), Tail(keys))

\* variant: without rows the Set holds a placeholder dimension
DimensionSetPlaceholder(data) ==
  IF data = <<>> THEN <<"value">>
  ELSE keysSetsOf(<<>>, [i \in DOMAIN data |-> ObjectKeys(data[i])])

\* const keys = data.map(v => Object.keys(v)); the Set filled from them
DimensionSet(data) == keysSetsOf(<<>>, [i \in DOMAIN data |-> ObjectKeys(data[i])])

----------------------------------------------------------------------------
(* The categorical colour scale (CategoricalColorNamespace.getScale) *)

ColorSchemes == {"supersetColors", "d3Category10"}

\* colorScale.colors: the palette of a scheme (abridged to two colours)
SchemeColors(colorScheme) ==
  IF colorScheme = "d3Category10"
    THEN <<"#1f77b4", "#ff7f0e">>
    ELSE <<"#1FA8C9", "#454E7C">>

IndexOf(s, k) == CHOOSE i \in DOMAIN s : s[i] = k

\* colorScale(dim) once the scale's domain is `domain`: an ordinal scale, the
\* n-th name first asked for gets the n-th colour of the palette, cyclically
colorScale(colorScheme, domain, dim) ==
  LET colors == SchemeColors(colorScheme)
  IN  colors[((IndexOf(domain, dim) - 1) % Len(colors)) + 1]

----------------------------------------------------------------------------
(* Pie transform *)

RECURSIVE PushRow(_, _, _)
\* keysSets.forEach(k => nameValuesChartData.push({ name: k, value: d[k] }))
PushRow(acc, d, ks) ==
  IF ks = <<>> THEN acc
  ELSE PushRow(Append(acc, [name |-> Head(ks), value |-> Get(d, Head(ks))]), d, Tail(ks))

RECURSIVE PushRows(_, _, _)
\* data.forEach(d => keysSets.forEach(...))
PushRows(acc, data, ks) ==
  IF data = <<>> THEN acc
  ELSE PushRows(PushRow(acc, Head(data), ks), Tail(data), ks)

\* variant: every row contributes only the keys it has itself
transformSeriesDataOwnKeys(data) ==
  LET RECURSIVE Own(_, _)
      Own(acc, rest) ==
        IF rest = <<>> THEN acc
        ELSE Own(PushRow(acc, Head(rest), ObjectKeys(Head(rest))), Tail(rest))
  IN  Own(<<>>, data)

\* variant: the pairs are emitted key by key, the rows inside
transformSeriesDataByKey(data) ==
  LET ks == DimensionSet(data)
      n == Len(data)
  IN  [p \in 1..(Len(ks) * n) |->
         [name |-> ks[((p - 1) \div n) + 1],
          value |-> Get(data[((p - 1) % n) + 1], ks[((p - 1) \div n) + 1])]]

transformSeriesData(data) == PushRows(<<>>, data, DimensionSet(data))

\* variant: the key_percent case shows the value instead of the percentage
formatPieLabelKeyPercentValue(params, numberFormat, labelType) ==
  LET name == params.name
      formattedValue == formatNumber(numberFormat, params.value)
      formattedPercent == JSString(params.percent) \o "%"
  IN  CASE labelType = "key" -> name
        [] labelType = "value" -> formattedValue
        [] labelType = "percent" -> formattedPercent
        [] labelType = "key_value" -> name \o ": " \o formattedValue
        [] labelType = "key_value_percent" ->
             name \o ": " \o formattedValue \o " (" \o formattedPercent \o ")"
        [] labelType = "key_percent" -> name \o ": " \o formattedValue
        [] OTHER -> name

\* variant: the default case shows the value, as the bar formatter does
formatPieLabelDefaultValue(params, numberFormat, labelType) ==
  LET name == params.name
      formattedValue == formatNumber(numberFormat, params.value)
      formattedPercent == JSString(params.percent) \o "%"
  IN  CASE labelType = "key" -> name
        [] labelType = "value" -> formattedValue
        [] labelType = "percent" -> formattedPercent
        [] labelType = "key_value" -> name \o ": " \o formattedValue
        [] labelType = "key_value_percent" ->
             name \o ": " \o formattedValue \o " (" \o formattedPercent \o ")"
        [] labelType = "key_percent" -> name \o ": " \o formattedPercent
        [] OTHER -> formattedValue

formatPieLabel(params, numberFormat, labelType) ==
  LET name == params.name
      formattedValue == formatNumber(numberFormat, params.value)
      formattedPercent == JSString(params.percent) \o "%"
  IN  CASE labelType = "key" -> name
        [] labelType = "value" -> formattedValue
        [] labelType = "percent" -> formattedPercent
        [] labelType = "key_value" -> name \o ": " \o formattedValue
        [] labelType = "key_value_percent" ->
             name \o ": " \o formattedValue \o " (" \o formattedPercent \o ")"
        [] labelType = "key_percent" -> name \o ": " \o formattedPercent
        [] OTHER -> name

\* variant: the radius is the pair whatever donut is
pieRadiusAlwaysPair(donut, innerRadius, outerRadius) ==
  Arr(<<JSString(innerRadius) \o "%", JSString(outerRadius) \o "%">>)

\* variant: a radius that is no number is replaced by the control's default
pieRadiusChecked(donut, innerRadius, outerRadius) ==
  LET inner == IF innerRadius.t = "number" THEN innerRadius ELSE Num(50)
      outer == IF outerRadius.t = "number" THEN outerRadius ELSE Num(70)
  IN  IF donut
        THEN Arr(<<JSString(inner) \o "%", JSString(outer) \o "%">>)
        ELSE Str(JSString(outer) \o "%")

\* radius: donut ? [innerRadius + "%", outerRadius + "%"] : outerRadius + "%"
pieRadius(donut, innerRadius, outerRadius) ==
  IF donut
    THEN Arr(<<JSString(innerRadius) \o "%", JSString(outerRadius) \o "%">>)
    ELSE Str(JSString(outerRadius) \o "%")

\* variant: the label line follows labelLine alone
pieLabelLineAlone(labelsOutside, labelLine) ==
  IF labelLine THEN [show |-> TRUE] ELSE [show |-> FALSE]

\* labelLine: labelsOutside && labelLine ? { show: true } : { show: false }
pieLabelLine(labelsOutside, labelLine) ==
  IF labelsOutside /\ labelLine THEN [show |-> TRUE] ELSE [show |-> FALSE]

buildPieChart(data, chartTitle, chartSubTitle, showLegend, showTitle, outerRadius, innerRadius, donut, numberFormat, colorScheme, showLabels, labelsOutside, labelLine, labelPosition, showTooltip, highlight, labelType, legendVertical, legendHorizontal, legendOrientation, marginTop, marginBottom, marginRight, marginLeft) ==
  LET nameValuesChartData == transformSeriesData(data)
      formatter == [fn |-> "formatPieLabel", numberFormat |-> numberFormat,
                    labelType |-> labelType]
  IN  [ title |-> [show |-> showTitle, text |-> chartTitle,
                   subtext |-> chartSubTitle, left |-> "center"],
        color |-> SchemeColors(colorScheme),
        tooltip |-> [show |-> showTooltip, trigger |-> "item",
                     formatter |-> formatter,
                     valueFormatter |-> [fn |-> "formatNumber",
                                         numberFormat |-> numberFormat]],
        legend |-> [show |-> showLegend, orient |-> legendOrientation,
                    left |-> legendHorizontal, top |-> legendVertical],
        series |-> <<
          [ type |-> "pie",
            radius |-> pieRadius(donut, innerRadius, outerRadius),
            data |-> nameValuesChartData,
            emphasis |-> [label |-> [show |-> highlight, fontSize |-> "18",
                                     fontWeight |-> "bold",
                                     formatter |-> formatter],
                          itemStyle |-> [shadowBlur |-> 10, shadowOffsetX |-> 0,
                                         shadowColor |-> "rgba(0, 0, 0, 0.5)"]],
            labelLine |-> pieLabelLine(labelsOutside, labelLine),
            label |-> IF labelsOutside
                        THEN [show |-> showLabels, formatter |-> formatter,
                              position |-> labelPosition, alignTo |-> "none",
                              bleedMargin |-> 5]
                        ELSE [show |-> showLabels, position |-> labelPosition,
                              formatter |-> formatter],
            top |-> marginTop, bottom |-> marginBottom,
            right |-> marginRight, left |-> marginLeft ] >> ]

\* transformProps of the pie plugin: chartOptions of the object it returns
pieTransformProps(fd, data) ==
  buildPieChart(data, fd.chartTitle, fd.chartSubTitle, fd.showLegend, fd.showTitle,
                fd.outerRadius, fd.innerRadius, fd.donut, fd.numberFormat,
                fd.colorScheme, fd.showLabels, fd.labelsOutside, fd.labelLine,
                fd.labelPosition, fd.showTooltip, fd.highlight, fd.labelType,
                fd.legendVertical, fd.legendHorizontal, fd.legendOrientation,
                fd.marginTop, fd.marginBottom, fd.marginRight, fd.marginLeft)

----------------------------------------------------------------------------
(* Bar transform, the variant with stacking, legend orientation and margins *)

null == [t |-> "null"]

\* variant: the seriesNameValue case shows the category instead of the series
labelFormatterCategoryForSeries(params, numberFormat, seriesLabelsFormat) ==
  LET seriesName == params.seriesName
      categoryName == params.name
      value == Get(params.value, seriesName)
      formattedValue == formatNumber(numberFormat, value)
  IN  CASE seriesLabelsFormat = "seriesNameCategoryValue" ->
             seriesName \o " - " \o categoryName \o " : " \o formattedValue
        [] seriesLabelsFormat = "seriesNameValue" ->
             categoryName \o " : " \o formattedValue
        [] seriesLabelsFormat = "categoryValue" ->
             categoryName \o " : " \o formattedValue
        [] OTHER -> formattedValue

\* const labelFormatter = (params) => ... , closed over numberFormat and
\* seriesLabelsFormat; params.value is the row of the data point
labelFormatter(params, numberFormat, seriesLabelsFormat) ==
  LET seriesName == params.seriesName
      categoryName == params.name
      value == Get(params.value, seriesName)
      formattedValue == formatNumber(numberFormat, value)
  IN  CASE seriesLabelsFormat = "seriesNameCategoryValue" ->
             seriesName \o " - " \o categoryName \o " : " \o formattedValue
        [] seriesLabelsFormat = "seriesNameValue" ->
             seriesName \o " : " \o formattedValue
        [] seriesLabelsFormat = "categoryValue" ->
             categoryName \o " : " \o formattedValue
        [] OTHER -> formattedValue

\* variant: top anchors the legend at the top only
legendOrientationBuilderTopOnly(legendOrientation) ==
  LET legend == [orient |-> IF legendOrientation \in {"top", "bottom"}
                              THEN "horizontal" ELSE "vertical"]
      options == CASE legendOrientation = "left" -> [left |-> 0]
                   [] legendOrientation = "bottom" -> [bottom |-> 0]
                   [] legendOrientation = "top" -> [top |-> 0]
                   [] OTHER -> [right |-> 0, top |-> 0]
  IN  Spread(legend, options)

legendOrientationBuilder(legendOrientation) ==
  LET legend == [orient |-> IF legendOrientation \in {"top", "bottom"}
                              THEN "horizontal" ELSE "vertical"]
      options == CASE legendOrientation = "left" -> [left |-> 0]
                   [] legendOrientation = "bottom" -> [bottom |-> 0]
                   [] OTHER -> [right |-> 0, top |-> 0]
  IN  Spread(legend, options)

\* variant: a series for every dimension, the category column included
seriesDimsAll(dimensions, cols) == dimensions

\* variant: the series array outlives the invocation, so the series of the
\* invocation before are still in it
seriesDimsAccumulated(dimensions, cols) ==
  (IF chartOptions = EmptyObj THEN <<>>
   ELSE [i \in DOMAIN chartOptions.series |-> chartOptions.series[i].name])
  \o SelectSeq(dimensions, LAMBDA dim : Str(dim) # cols)

\* variant: the series are pushed from the last dimension to the first
seriesDimsReversed(dimensions, cols) ==
  LET kept == SelectSeq(dimensions, LAMBDA dim : Str(dim) # cols)
  IN  [i \in DOMAIN kept |-> kept[Len(kept) + 1 - i]]

\* the dimensions for which the forEach pushes a series: dim !== cols, where
\* cols is a string or undefined and every dim is a string
seriesDims(dimensions, cols) == SelectSeq(dimensions, LAMBDA dim : Str(dim) # cols)

\* the colour scale's domain once colorScale(dim) was called for every series
domainAfter(domain, dimensions, cols) == AddAll(domain, seriesDims(dimensions, cols))

\* variant: the categorical y axis is shown whatever seriesCategoriesShow is
yAxisAsCategoriesShown(invertBars, seriesCategoriesShow) ==
  IF invertBars THEN [type |-> "category", show |-> TRUE] ELSE EmptyObj

yAxisAsCategories(invertBars, seriesCategoriesShow) ==
  IF invertBars THEN [type |-> "category", show |-> seriesCategoriesShow] ELSE EmptyObj

\* variant: the x axis is categorical when the bars are inverted
xAxisAsCategoriesInverted(invertBars, seriesCategoriesShow) ==
  IF invertBars THEN [type |-> "category", show |-> seriesCategoriesShow] ELSE EmptyObj

xAxisAsCategories(invertBars, seriesCategoriesShow) ==
  IF ~invertBars THEN [type |-> "category", show |-> seriesCategoriesShow] ELSE EmptyObj

\* variant: the category column is encoded on x whatever invertBars is
axisEncodingNotInverted(invertBars, cols) == [x |-> cols, y |-> null]

axisEncoding(invertBars, cols) ==
  IF invertBars THEN [y |-> cols, x |-> null] ELSE [x |-> cols, y |-> null]

\* variant: the stack identifier is set whatever stackSeries is
stackSettingsAlways(stackSeries) == [stack |-> "totals"]

\* const stackSettings = stackSeries ? {stack: 'totals'} : {}
stackSettings(stackSeries) == IF stackSeries THEN [stack |-> "totals"] ELSE EmptyObj

buildEchartOptions(data, cols, invertBars, showLegend, seriesLabelsShow, seriesLabelsPosition, seriesCategoriesShow, numberFormat, seriesLabelsFormat, colorScheme, showTooltip, stackSeries, marginTop, marginBottom, marginRight, marginLeft, legendOrientation) ==
  LET dimensions == DimensionSet(data)
      singleSeriesConfig ==
        Spread([ name |-> EmptyObj,
                 type |-> "bar",
                 encode |-> axisEncoding(invertBars, cols),
                 label |-> [show |-> seriesLabelsShow,
                            position |-> seriesLabelsPosition,
                            formatter |-> [fn |-> "labelFormatter",
                                           numberFormat |-> numberFormat,
                                           seriesLabelsFormat |-> seriesLabelsFormat]],
                 itemStyle |-> [color |-> "auto"] ],
               stackSettings(stackSeries))
      domain == domainAfter(scales[colorScheme], dimensions, cols)
      seriesOf(dim) ==
        LET setValueAxisEncoding ==
              IF invertBars THEN Spread(singleSeriesConfig.encode, [x |-> Str(dim)])
                            ELSE Spread(singleSeriesConfig.encode, [y |-> Str(dim)])
        IN  Spread(singleSeriesConfig,
                   [ name |-> dim,
                     itemStyle |-> [color |-> colorScale(colorScheme, domain, dim)],
                     encode |-> setValueAxisEncoding ])
      kept == seriesDims(dimensions, cols)
      allSeriesConfigs == [i \in DOMAIN kept |-> seriesOf(kept[i])]
      legendOptions == legendOrientationBuilder(legendOrientation)
  IN  [ dataset |-> [dimensions |-> dimensions, source |-> data],
        legend |-> Spread([show |-> showLegend], legendOptions),
        tooltip |-> [show |-> showTooltip,
                     valueFormatter |-> [fn |-> "formatNumber",
                                         numberFormat |-> numberFormat]],
        yAxis |-> yAxisAsCategories(invertBars, seriesCategoriesShow),
        xAxis |-> xAxisAsCategories(invertBars, seriesCategoriesShow),
        series |-> allSeriesConfigs,
        grid |-> [top |-> marginTop, bottom |-> marginBottom,
                  right |-> marginRight, left |-> marginLeft] ]

\* transformProps of part_002: chartOptions of the object it returns
barTransformProps(fd, data) ==
  buildEchartOptions(data, fd.cols, fd.invertBars, fd.showLegend, fd.seriesLabelsShow,
                     fd.seriesLabelsPosition, fd.seriesCategoriesShow, fd.numberFormat,
                     fd.seriesLabelsFormat, fd.colorScheme, fd.showTooltip,
                     fd.stackSeries, fd.marginTop, fd.marginBottom, fd.marginRight,
                     fd.marginLeft, fd.legendOrientation)

----------------------------------------------------------------------------
(* Bar transform, the simple variant (mo-echarts-bar/src/plugin) *)

labelFormatterSimple(params, numberFormat, seriesLabelsFormat) ==
  LET seriesName == params.seriesName
      categoryName == params.name
      value == Get(params.value, seriesName)
      formattedValue == formatNumber(numberFormat, value)
  IN  CASE seriesLabelsFormat = "seriesNameCategoryValue" ->
             seriesName \o " - " \o categoryName \o " : " \o formattedValue
        [] seriesLabelsFormat = "seriesNameValue" ->
             seriesName \o " : " \o formattedValue
        [] seriesLabelsFormat = "categoryValue" ->
             categoryName \o " : " \o formattedValue
        [] OTHER -> formattedValue

buildEchartOptionsSimple(data, cols, invertBars, showLegend, seriesLabelsShow, seriesLabelsPosition, seriesCategoriesShow, numberFormat, seriesLabelsFormat, colorScheme, showTooltip) ==
  LET dimensions == DimensionSet(data)
      yAxis ==
        IF invertBars THEN [type |-> "category", show |-> seriesCategoriesShow]
                      ELSE EmptyObj
      xAxis ==
        IF ~invertBars THEN [type |-> "category", show |-> seriesCategoriesShow]
                       ELSE EmptyObj
      encoding == IF invertBars THEN [y |-> cols, x |-> null]
                                    ELSE [x |-> cols, y |-> null]
      singleSeriesConfig ==
        [ name |-> EmptyObj,
          type |-> "bar",
          encode |-> encoding,
          label |-> [show |-> seriesLabelsShow,
                     position |-> seriesLabelsPosition,
                     formatter |-> [fn |-> "labelFormatterSimple",
                                    numberFormat |-> numberFormat,
                                    seriesLabelsFormat |-> seriesLabelsFormat]],
          itemStyle |-> [color |-> "auto"] ]
      domain == domainAfter(scales[colorScheme], dimensions, cols)
      seriesOf(dim) ==
        LET setValueAxisEncoding ==
              IF invertBars THEN Spread(singleSeriesConfig.encode, [x |-> Str(dim)])
                            ELSE Spread(singleSeriesConfig.encode, [y |-> Str(dim)])
        IN  Spread(singleSeriesConfig,
                   [ name |-> dim,
                     itemStyle |-> [color |-> colorScale(colorScheme, domain, dim)],
                     encode |-> setValueAxisEncoding ])
      kept == seriesDims(dimensions, cols)
      allSeriesConfigs == [i \in DOMAIN kept |-> seriesOf(kept[i])]
  IN  [ dataset |-> [dimensions |-> dimensions, source |-> data],
        legend |-> [show |-> showLegend],
        tooltip |-> [show |-> showTooltip],
        yAxis |-> yAxis,
        xAxis |-> xAxis,
        series |-> allSeriesConfigs ]

\* transformProps of the simple variant: chartOptions of the object it returns
barSimpleTransformProps(fd, data) ==
  buildEchartOptionsSimple(data, fd.cols, fd.invertBars, fd.showLegend,
                           fd.seriesLabelsShow, fd.seriesLabelsPosition,
                           fd.seriesCategoriesShow, fd.numberFormat,
                           fd.seriesLabelsFormat, fd.colorScheme, fd.showTooltip)

----------------------------------------------------------------------------
(* Control panel of the pie plugin: the visibility predicates *)

Bool(b) == [t |-> "boolean", v |-> b]

\* variant: everything but false counts as true
BooleanNotFalse(x) == x # Bool(FALSE)

\* Boolean(x): the truthiness of a JavaScript value
Boolean(x) ==
  CASE x.t = "boolean" -> x.v
    [] x.t = "number" -> x.v # 0
    [] x.t = "string" -> x.v # ""
    [] OTHER -> FALSE

\* controls?.[name]?.value: undefined when controls, the control or its value
\* is missing
OptionalValue(ctrls, name) ==
  IF ctrls = undefined THEN undefined
  ELSE IF name \notin DOMAIN ctrls THEN undefined
  ELSE IF "value" \notin DOMAIN ctrls[name] THEN undefined
  ELSE ctrls[name].value

\* the controls that have a visibility predicate, with the control it reads
Governing ==
  [ chartTitle |-> "showTitle", chartSubTitle |-> "showTitle",
    labels_outside |-> "show_labels", label_line |-> "show_labels",
    innerRadius |-> "donut" ]

\* visibility: ({ controls }) => Boolean(controls?.<governing>?.value)
visibility(name, ctrls) == Boolean(OptionalValue(ctrls, Governing[name]))

\* the predicates of all conditional controls, evaluated by the host
VisibleOf(ctrls) == [name \in DOMAIN Governing |-> visibility(name, ctrls)]

\* the controls the predicates can be given, at their defaults
PanelDefaults ==
  [ showTitle |-> [value |-> Bool(TRUE)], show_labels |-> [value |-> Bool(TRUE)],
    donut |-> [value |-> Bool(FALSE)], showLegend |-> [value |-> Bool(TRUE)] ]

InitPanel ==
  /\ controls = PanelDefaults
  /\ visible = VisibleOf(PanelDefaults)

----------------------------------------------------------------------------
(* Inputs supplied by the host *)

MaxRows == 2

Keys == {"region", "sales", "cost"}

KeyValues(k) == IF k = "region" THEN {Str("A"), Str("B")}
                ELSE IF k = "sales" THEN {Num(10)} ELSE {Num(20)}

Entries == UNION {{<<k, v>> : v \in KeyValues(k)} : k \in Keys}

\* every object over Keys, in every key order
Rows ==
  {r \in UNION {[1..n -> Entries] : n \in 0..Cardinality(Keys)} :
     \A i, j \in DOMAIN r : i # j => r[i][1] # r[j][1]}

AllData == UNION {[1..n -> Rows] : n \in 0..MaxRows}

RowA == << <<"region", Str("A")>>, <<"sales", Num(10)>> >>
RowB == << <<"region", Str("B")>>, <<"sales", Num(10)>> >>
RowC == << <<"sales", Num(10)>>, <<"cost", Num(20)>>, <<"region", Str("A")>> >>
RowD == << <<"cost", Num(20)>>, <<"region", Str("B")>> >>

FewData == {<<>>, <<RowA, RowB>>, <<RowC, RowD>>}

\* the defaults of the pie control panel (formData keys are camel-cased)
PieDefaults ==
  [ chartTitle |-> "", chartSubTitle |-> "", showLegend |-> TRUE, showTitle |-> TRUE,
    outerRadius |-> Num(70), innerRadius |-> Num(50), donut |-> FALSE,
    numberFormat |-> "SMART_NUMBER", colorScheme |-> "supersetColors",
    showLabels |-> TRUE, labelsOutside |-> TRUE, labelLine |-> TRUE,
    labelPosition |-> Str("outside"), showTooltip |-> TRUE, highlight |-> TRUE,
    labelType |-> "key_value", legendVertical |-> "top", legendHorizontal |-> "right",
    legendOrientation |-> "vertical", marginTop |-> Str("5%"),
    marginBottom |-> Str("5%"), marginRight |-> Str("5%"), marginLeft |-> Str("5%") ]

\* every pass-through option of the pie set to another value
PieAltered ==
  [ PieDefaults EXCEPT
      !.chartTitle = "Sales", !.chartSubTitle = "by region", !.showLegend = FALSE,
      !.showTitle = FALSE, !.colorScheme = "d3Category10",
      !.labelPosition = Str("inside"),
      !.showTooltip = FALSE, !.highlight = FALSE, !.legendVertical = "bottom",
      !.legendHorizontal = "left", !.legendOrientation = "horizontal",
      !.marginTop = Str("10"), !.marginBottom = Str("0%"), !.marginRight = Str("20"),
      !.marginLeft = Str("1%") ]

LabelTypes == {"key", "value", "percent", "key_value", "key_percent", "key_value_percent"}

PieFormDatas ==
  { [ base EXCEPT !.donut = d, !.innerRadius = Num(i), !.outerRadius = Num(o),
                  !.labelType = lt, !.numberFormat = nf, !.showLabels = sl,
                  !.labelsOutside = lo, !.labelLine = ll ] :
      base \in {PieDefaults, PieAltered}, d \in BOOLEAN, i \in {0, 50}, o \in {70, 100},
      lt \in LabelTypes \cup {"bogus"}, nf \in {"SMART_NUMBER", ".2f"},
      sl \in BOOLEAN, lo \in BOOLEAN, ll \in BOOLEAN }

\* the defaults of the bar control panel, with a category column chosen
BarDefaults ==
  [ cols |-> Str("region"), invertBars |-> FALSE, showLegend |-> TRUE,
    seriesLabelsShow |-> FALSE, seriesLabelsPosition |-> Str("top"),
    seriesCategoriesShow |-> TRUE, seriesLabelsFormat |-> "default",
    numberFormat |-> "SMART_NUMBER", colorScheme |-> "supersetColors",
    showTooltip |-> TRUE, stackSeries |-> FALSE, marginTop |-> Str("5%"),
    marginBottom |-> Str("5%"), marginRight |-> Str("5%"), marginLeft |-> Str("5%"),
    legendOrientation |-> "top" ]

\* every pass-through option of the bar set to another value
BarAltered ==
  [ BarDefaults EXCEPT
      !.showLegend = FALSE, !.seriesLabelsShow = TRUE,
      !.seriesLabelsPosition = Str("inside"), !.colorScheme = "d3Category10",
      !.showTooltip = FALSE, !.marginTop = Str("10"), !.marginBottom = Str("0%"),
      !.marginRight = Str("20"), !.marginLeft = Str("1%") ]

SeriesLabelsFormats == {"seriesNameCategoryValue", "seriesNameValue", "categoryValue"}

LegendOrientations == {"top", "bottom", "left", "right"}

\* cols: an observed key, a column that is no key of the rows, or no selection
ColsValues == {Str("region"), Str("sales"), Str("other"), undefined}

BarFormDatas ==
  { [ base EXCEPT !.cols = c, !.invertBars = ib, !.seriesCategoriesShow = sc,
                  !.stackSeries = st, !.seriesLabelsFormat = f,
                  !.legendOrientation = lo, !.numberFormat = nf ] :
      base \in {BarDefaults, BarAltered}, c \in ColsValues, ib \in BOOLEAN,
      sc \in BOOLEAN, st \in BOOLEAN,
      f \in SeriesLabelsFormats \cup {"default", "bogus"},
      lo \in LegendOrientations \cup {"bogus"}, nf \in {"SMART_NUMBER", ".2f"} }

\* option values no control offers: missing (undefined) and wrongly typed
\* radii, label positions and margins
PieMalformed ==
  { [ base EXCEPT !.donut = d, !.outerRadius = o, !.innerRadius = i,
                  !.labelPosition = lp, !.marginTop = m, !.marginLeft = m ] :
      base \in {PieDefaults, PieAltered}, d \in BOOLEAN,
      o \in {Str("abc"), undefined}, i \in {Num(50), Str("x")},
      lp \in {Str("bogus"), undefined}, m \in {Str("wide"), Num(5), undefined} }

BarMalformed ==
  { [ base EXCEPT !.seriesLabelsPosition = lp, !.marginTop = m, !.marginLeft = m,
                  !.legendOrientation = lo ] :
      base \in {BarDefaults, BarAltered}, lp \in {Str("nowhere"), undefined},
      m \in {Str("wide"), Num(5), undefined}, lo \in {"bogus", "left"} }

Plugins == {"pie", "bar", "barSimple"}

\* the (formData, data) pairs the host supplies: every data set under a few
\* options, and every option combination, the malformed ones included, over a
\* few data sets
Inputs(p) ==
  IF p = "pie"
    THEN ({PieDefaults} \X AllData) \cup ((PieFormDatas \cup PieMalformed) \X FewData)
    ELSE ({BarDefaults, [BarDefaults EXCEPT !.cols = undefined]} \X AllData)
           \cup ((BarFormDatas \cup BarMalformed) \X FewData)

----------------------------------------------------------------------------
(* The transforms as steps of the host's refresh cycle *)

NoSpec == EmptyObj
NoLabel == EmptyObj
NoSeen == EmptyObj
NoDeps == EmptyObj

\* a formatter of a ChartSpec called by the rendering library
CallFormatter(f, params) ==
  CASE f.fn = "formatPieLabel" -> formatPieLabel(params, f.numberFormat, f.labelType)
    [] f.fn = "labelFormatter" ->
         labelFormatter(params, f.numberFormat, f.seriesLabelsFormat)
    [] f.fn = "labelFormatterSimple" ->
         labelFormatterSimple(params, f.numberFormat, f.seriesLabelsFormat)
    [] OTHER -> formatNumber(f.numberFormat, params)

\* the parameters the rendering library passes to a pie label formatter
PieLabelParams ==
  { [name |-> "A", value |-> Num(10), percent |-> Str("20%")],
    [name |-> "A", value |-> Num(10), percent |-> Num(20)] }

\* the parameters the rendering library passes to a bar label formatter
BarLabelParams ==
  { [seriesName |-> "sales", name |-> "A", value |-> RowC],
    [seriesName |-> "cost", name |-> "B", value |-> RowD],
    [seriesName |-> "sales", name |-> "B", value |-> RowD] }

InitAdapter ==
  /\ divRef = FALSE
  /\ chartRef = 0
  /\ deps = NoDeps
  /\ effects = <<>>
  /\ instances = <<>>
  /\ calls = <<>>

InitHost ==
  /\ size = [width |-> 400, height |-> 300]
  /\ pc = "host"
  /\ chartOptions = NoSpec
  /\ gen = 0
  /\ scales = [s \in ColorSchemes |-> <<>>]
  /\ label = NoLabel
  /\ seen = NoSeen

Init ==
  /\ plugin \in Plugins
  /\ \E in \in Inputs(plugin) : formData = in[1] /\ queriesData = in[2]
  /\ InitHost
  /\ InitAdapter
  /\ InitPanel

adapterVars == <<divRef, chartRef, deps, effects, instances, calls>>
panelVars == <<controls, visible>>
inputVars == <<plugin, queriesData, formData, size>>

\* transformProps of the pie plugin
TransformPropsPie ==
  /\ pc = "host"
  /\ plugin = "pie"
  /\ chartOptions' = pieTransformProps(formData, queriesData)
  /\ gen' = gen + 1
  /\ pc' = "render"
  /\ UNCHANGED <<panelVars, inputVars, scales, label, seen, adapterVars>>

\* transformProps of the bar plugin (part_002)
TransformPropsBar ==
  /\ pc = "host"
  /\ plugin = "bar"
  /\ chartOptions' = barTransformProps(formData, queriesData)
  /\ scales' = [scales EXCEPT ![formData.colorScheme] =
                  domainAfter(@, DimensionSet(queriesData), formData.cols)]
  /\ gen' = gen + 1
  /\ pc' = "render"
  /\ UNCHANGED <<panelVars, inputVars, label, seen, adapterVars>>

\* transformProps of the simple bar plugin
TransformPropsBarSimple ==
  /\ pc = "host"
  /\ plugin = "barSimple"
  /\ chartOptions' = barSimpleTransformProps(formData, queriesData)
  /\ scales' = [scales EXCEPT ![formData.colorScheme] =
                  domainAfter(@, DimensionSet(queriesData), formData.cols)]
  /\ gen' = gen + 1
  /\ pc' = "render"
  /\ UNCHANGED <<panelVars, inputVars, label, seen, adapterVars>>

\* the rendering library asks the pie series for a label
PieLabel ==
  /\ pc = "render"
  /\ plugin = "pie"
  /\ \E params \in PieLabelParams :
       label' = [params |-> params,
                 text |-> CallFormatter(chartOptions.series[1].label.formatter, params)]
  /\ UNCHANGED <<panelVars, inputVars, pc, chartOptions, gen, scales, seen, adapterVars>>

\* the rendering library asks a bar series for a label
BarLabel ==
  /\ pc = "render"
  /\ plugin \in {"bar", "barSimple"}
  /\ \E i \in DOMAIN chartOptions.series, params \in BarLabelParams :
       label' = [params |-> params,
                 text |-> CallFormatter(chartOptions.series[i].label.formatter, params)]
  /\ UNCHANGED <<panelVars, inputVars, pc, chartOptions, gen, scales, seen, adapterVars>>

Next ==
  \/ TransformPropsPie
  \/ TransformPropsBar
  \/ TransformPropsBarSimple
  \/ PieLabel
  \/ BarLabel

Spec == Init /\ [][Next]_vars

----------------------------------------------------------------------------
(* Repeated invocation of a transform by the host *)

MaxRefresh == 3

\* the inputs of the repeated invocations: a few option sets over a few data sets
HostFormDatas(p) ==
  IF p = "pie"
    THEN {PieDefaults,
          [PieAltered EXCEPT !.donut = TRUE, !.labelType = "key_percent",
                             !.labelsOutside = FALSE]}
    ELSE {BarDefaults,
          [BarAltered EXCEPT !.cols = Str("sales"), !.invertBars = TRUE,
                             !.stackSeries = TRUE, !.colorScheme = "supersetColors",
                             !.seriesLabelsFormat = "categoryValue",
                             !.legendOrientation = "left"]}

InitRepeat ==
  /\ plugin \in Plugins
  /\ formData \in HostFormDatas(plugin)
  /\ queriesData \in FewData
  /\ InitHost
  /\ InitAdapter
  /\ InitPanel

\* the host invokes the transform again, with the same or with other rows and
\* options, and may keep the ChartSpec of the invocation before
HostInvoke ==
  /\ pc = "render"
  /\ gen < MaxRefresh
  /\ formData' \in HostFormDatas(plugin)
  /\ queriesData' \in FewData
  /\ \E keep \in BOOLEAN :
       seen' = IF keep THEN [formData |-> formData, data |-> queriesData,
                             chartOptions |-> chartOptions]
                       ELSE seen
  /\ pc' = "host"
  /\ label' = NoLabel
  /\ UNCHANGED <<panelVars, plugin, size, chartOptions, gen, scales, adapterVars>>

NextRepeat ==
  \/ TransformPropsPie
  \/ TransformPropsBar
  \/ TransformPropsBarSimple
  \/ HostInvoke

SpecRepeat == InitRepeat /\ [][NextRepeat]_vars

----------------------------------------------------------------------------
(* The rendering library (echarts), as far as the adapter uses it *)

\* echarts.init(dom): a new instance on the element, sized as the element is
EchartsInit(sz) ==
  [ option |-> NoSpec, width |-> sz.width, height |-> sz.height,
    applied |-> <<>>, disposed |-> FALSE ]

\* the option an instance holds after merging `new` into `old`: components
\* are replaced by key, series are merged by index, so what `new` does not
\* mention stays
MergeOption(old, new) ==
  [ k \in (DOMAIN old) \cup (DOMAIN new) |->
      IF k \notin DOMAIN new THEN old[k]
      ELSE IF k = "series" /\ k \in DOMAIN old /\ Len(old[k]) > Len(new[k])
        THEN new[k] \o SubSeq(old[k], Len(new[k]) + 1, Len(old[k]))
        ELSE new[k] ]

\* instance.setOption(option, notMerge), option being the object numbered g
EchartsSetOption(inst, option, g, notMerge) ==
  [ inst EXCEPT !.option = IF notMerge THEN option ELSE MergeOption(@, option),
                !.applied = Append(@, g) ]

\* instance.resize({ width, height })
EchartsResize(inst, sz) ==
  [ inst EXCEPT !.width = sz.width, !.height = sz.height ]

----------------------------------------------------------------------------
(* The render adapter: the Echart component *)

Sizes == {[width |-> 400, height |-> 300], [width |-> 800, height |-> 300],
          [width |-> 800, height |-> 600]}

\* variant: setOption merges into the option the instance holds
notMergeFalse == FALSE

\* the second argument of chartRef.current.setOption(chartOptions, true)
notMerge == TRUE

\* variant: the effect runs on mount only
setOptionDepsNone(g, sz) == <<>>

\* the dependencies [chartOptions] of the first effect: the object's identity
setOptionDeps(g, sz) == <<g>>

\* variant: the second effect depends on the chartOptions object as well
resizeDepsWithOptions(g, sz) == <<g, sz.width, sz.height>>

\* variant: the second effect depends on the width only
resizeDepsWidthOnly(g, sz) == <<sz.width>>

\* the dependencies [width, height] of the second effect
resizeDeps(g, sz) == <<sz.width, sz.height>>

\* variant: the resize effect is declared before the setOption effect
scheduledResizeFirst(old, g, sz) ==
  (IF old = NoDeps \/ old.resize # resizeDeps(g, sz)
     THEN <<"resize">> ELSE <<>>)
  \o (IF old = NoDeps \/ old.setOption # setOptionDeps(g, sz)
        THEN <<"setOption">> ELSE <<>>)

\* the effects a render schedules, in the order the component declares them
scheduled(old, g, sz) ==
  (IF old = NoDeps \/ old.setOption # setOptionDeps(g, sz)
     THEN <<"setOption">> ELSE <<>>)
  \o (IF old = NoDeps \/ old.resize # resizeDeps(g, sz)
        THEN <<"resize">> ELSE <<>>)

\* useImperativeHandle: getEchartInstance: () => chartRef.current
getEchartInstance == chartRef

\* variant: the instance is created whenever the effect runs
needsInitAlways(ref) == TRUE

\* if (!chartRef.current): no instance was created yet
needsInit(ref) == ref = 0

\* the host supplies new rows and options, with the size kept or changed
HostRefresh ==
  /\ pc = "idle"
  /\ gen < MaxRefresh
  /\ formData' \in HostFormDatas(plugin)
  /\ queriesData' \in FewData
  /\ size' \in Sizes
  /\ \/ size' = size
     \/ formData' = formData /\ queriesData' = queriesData
  /\ pc' = "host"
  /\ UNCHANGED <<panelVars, plugin, chartOptions, gen, scales, label, seen, adapterVars>>

\* the component is rendered again with the chartOptions object it has and
\* another width or height
ResizeOnly ==
  /\ pc = "idle"
  /\ size' \in Sizes \ {size}
  /\ pc' = "render"
  /\ UNCHANGED <<panelVars, plugin, queriesData, formData, chartOptions, gen, scales, label,
                 seen, adapterVars>>

\* Echart(props, ref) runs and React commits: the div is attached and the
\* effects whose dependencies changed are scheduled
EchartRender ==
  /\ pc = "render"
  /\ divRef' = TRUE
  /\ deps' = [setOption |-> setOptionDeps(gen, size), resize |-> resizeDeps(gen, size)]
  /\ effects' = scheduled(deps, gen, size)
  /\ calls' = <<>>
  /\ pc' = IF effects' = <<>> THEN "idle" ELSE "effects"
  /\ UNCHANGED <<panelVars, inputVars, chartOptions, gen, scales, label, seen, chartRef, instances>>

\* useEffect(() => { ... setOption(chartOptions, true) }, [chartOptions])
EffectSetOption ==
  /\ pc = "effects"
  /\ effects # <<>>
  /\ Head(effects) = "setOption"
  /\ IF ~divRef
       THEN UNCHANGED <<chartRef, instances, calls>>
       ELSE LET created == needsInit(chartRef)
                id == IF created THEN Len(instances) + 1 ELSE chartRef
                insts == IF created THEN Append(instances, EchartsInit(size))
                                    ELSE instances
            IN  /\ chartRef' = id
                /\ instances' =
                     [insts EXCEPT ![id] = EchartsSetOption(@, chartOptions, gen, notMerge)]
                /\ calls' = calls
                     \o (IF created THEN <<[op |-> "init", inst |-> id]>> ELSE <<>>)
                     \o <<[op |-> "setOption", inst |-> id, option |-> chartOptions,
                           gen |-> gen, notMerge |-> notMerge]>>
  /\ effects' = Tail(effects)
  /\ pc' = IF effects' = <<>> THEN "idle" ELSE "effects"
  /\ UNCHANGED <<panelVars, inputVars, chartOptions, gen, scales, label, seen, divRef, deps>>

\* useEffect(() => { if (chartRef.current) resize({ width, height }) }, [width, height])
EffectResize ==
  /\ pc = "effects"
  /\ effects # <<>>
  /\ Head(effects) = "resize"
  /\ IF chartRef # 0
       THEN /\ instances' = [instances EXCEPT ![chartRef] = EchartsResize(@, size)]
            /\ calls' = Append(calls, [op |-> "resize", inst |-> chartRef,
                                       width |-> size.width, height |-> size.height])
       ELSE UNCHANGED <<instances, calls>>
  /\ effects' = Tail(effects)
  /\ pc' = IF effects' = <<>> THEN "idle" ELSE "effects"
  /\ UNCHANGED <<panelVars, inputVars, chartOptions, gen, scales, label, seen, divRef, chartRef, deps>>

\* variant: an effect cleanup disposes the instance when the surface is removed
UnmountDisposing ==
  /\ pc = "idle"
  /\ divRef' = FALSE
  /\ pc' = "unmounted"
  /\ instances' = [i \in DOMAIN instances |-> [instances[i] EXCEPT !.disposed = TRUE]]
  /\ UNCHANGED <<panelVars, inputVars, chartOptions, gen, scales, label, seen, chartRef,
                 deps, effects, calls>>

\* the surface is removed: React detaches the div; the effects have no cleanup
Unmount ==
  /\ pc = "idle"
  /\ divRef' = FALSE
  /\ pc' = "unmounted"
  /\ UNCHANGED <<panelVars, inputVars, chartOptions, gen, scales, label, seen, chartRef, deps,
                 effects, instances, calls>>

InitAdapterSpec ==
  /\ plugin \in Plugins
  /\ formData \in HostFormDatas(plugin)
  /\ queriesData \in FewData
  /\ InitHost
  /\ InitAdapter
  /\ InitPanel

NextAdapter ==
  \/ HostRefresh
  \/ ResizeOnly
  \/ TransformPropsPie
  \/ TransformPropsBar
  \/ TransformPropsBarSimple
  \/ EchartRender
  \/ EffectSetOption
  \/ EffectResize
  \/ Unmount

SpecAdapter == InitAdapterSpec /\ [][NextAdapter]_vars

----------------------------------------------------------------------------
(* The host's control panel: it changes controls and asks the predicates *)

\* the values a control can hold: the checkbox states, no value, and values
\* of another type
ControlValues ==
  {Bool(TRUE), Bool(FALSE), undefined, null, Num(0), Num(1), Str(""), Str("yes")}

hostVars == <<plugin, queriesData, formData, size, pc, chartOptions, gen, scales,
              label, seen>>

\* the host sets the value of a control and evaluates the predicates
SetControl ==
  /\ controls # undefined
  /\ \E name \in DOMAIN controls, v \in ControlValues :
       controls' = [controls EXCEPT ![name] = [value |-> v]]
  /\ visible' = VisibleOf(controls')
  /\ UNCHANGED <<hostVars, adapterVars>>

\* the host passes a control without a value property
UnsetControl ==
  /\ controls # undefined
  /\ \E name \in DOMAIN controls :
       controls' = [controls EXCEPT ![name] = EmptyObj]
  /\ visible' = VisibleOf(controls')
  /\ UNCHANGED <<hostVars, adapterVars>>

\* the host passes the controls without one of them
RemoveControl ==
  /\ controls # undefined
  /\ \E name \in DOMAIN controls :
       controls' = [n \in (DOMAIN controls) \ {name} |-> controls[n]]
  /\ visible' = VisibleOf(controls')
  /\ UNCHANGED <<hostVars, adapterVars>>

\* the host passes no controls at all, or the default ones again
ResetControls ==
  /\ controls' \in {undefined, PanelDefaults}
  /\ visible' = VisibleOf(controls')
  /\ UNCHANGED <<hostVars, adapterVars>>

InitPanelSpec ==
  /\ plugin = "pie"
  /\ formData = PieDefaults
  /\ queriesData = <<>>
  /\ InitHost
  /\ InitAdapter
  /\ InitPanel

NextPanel ==
  \/ SetControl
  \/ UnsetControl
  \/ RemoveControl
  \/ ResetControls

SpecPanel == InitPanelSpec /\ [][NextPanel]_vars

\* React runs a pending render of the component and flushes the effects the
\* render scheduled; the host is free to stop refreshing and resizing
SpecAdapterLive ==
  /\ SpecAdapter
  /\ WF_vars(EchartRender)
  /\ WF_vars(EffectSetOption)
  /\ WF_vars(EffectResize)

----------------------------------------------------------------------------
(* Properties of the transforms *)

\* the Dimension Set as the union of the keys of all rows
UnionKeys(data) ==
  UNION {{data[i][j][1] : j \in DOMAIN data[i]} : i \in DOMAIN data}

PieDone == plugin = "pie" /\ pc = "render"
BarDone == plugin \in {"bar", "barSimple"} /\ pc = "render"

SeriesNames == {chartOptions.series[i].name : i \in DOMAIN chartOptions.series}

\* C1: the pie series data holds exactly (number of rows) x (size of the
\* Dimension Set) NameValue pairs, and every key of the Dimension Set, a
\* category column included, names a pair.
C1_PieCount ==
  PieDone =>
    LET d == chartOptions.series[1].data
    IN  /\ Len(d) = Len(queriesData) * Cardinality(UnionKeys(queriesData))
        /\ queriesData # <<>> => {d[i].name : i \in DOMAIN d} = UnionKeys(queriesData)

C1_Witness ==
  /\ PieDone
  /\ Len(queriesData) = 2
  /\ Len(queriesData[1]) # Len(queriesData[2])
  /\ Cardinality(UnionKeys(queriesData)) = 3
  /\ Len(chartOptions.series[1].data) = 6

\* C2 as stated: the bar transform (both variants) produces |Dimension Set| - 1
\* series for all rows and every value of cols, each named by a distinct
\* observed key.
C2_Original ==
  BarDone =>
    /\ Len(chartOptions.series) = Cardinality(UnionKeys(queriesData)) - 1
    /\ Cardinality(SeriesNames) = Len(chartOptions.series)
    /\ SeriesNames \subseteq UnionKeys(queriesData)

\* C2 amended: the bar transform (both variants) produces one series per
\* observed key other than cols: |Dimension Set| - 1 series when cols is an
\* observed key and |Dimension Set| series otherwise (no rows, cols unset or
\* naming no key of the rows); every series name is a distinct observed key.
C2_SeriesCount ==
  BarDone =>
    LET U == UnionKeys(queriesData)
        observed == \E k \in U : formData.cols = Str(k)
    IN  /\ Len(chartOptions.series) = IF observed THEN Cardinality(U) - 1
                                                  ELSE Cardinality(U)
        /\ Cardinality(SeriesNames) = Len(chartOptions.series)
        /\ SeriesNames \subseteq U

C2_Witness ==
  /\ BarDone
  /\ plugin = "bar"
  /\ formData.cols = Str("region")
  /\ UnionKeys(queriesData) = Keys
  /\ SeriesNames = {"sales", "cost"}
  /\ Len(chartOptions.series) = 2

ParamsA == [name |-> "A", value |-> Num(10), percent |-> Str("20%")]
ParamsA20 == [name |-> "A", value |-> Num(10), percent |-> Num(20)]

\* the label the spec lists for name "A", the formatted value v and the
\* percentage text p
ListedPieLabel(labelType, v, p) ==
  CASE labelType = "key" -> "A"
    [] labelType = "value" -> v
    [] labelType = "percent" -> p
    [] labelType = "key_value" -> "A: " \o v
    [] labelType = "key_percent" -> "A: " \o p
    [] labelType = "key_value_percent" -> "A: " \o v \o " (" \o p \o ")"
    [] OTHER -> "A"

PieLabelled(params) == plugin = "pie" /\ label # NoLabel /\ label.params = params

\* C3 as stated: for name "A", value 10 and percent "20%" the pie label
\* formatter returns the listed labels, the percentage shown as "20%".
C3_Original ==
  PieLabelled(ParamsA) =>
    label.text = ListedPieLabel(formData.labelType,
                                formatNumber(formData.numberFormat, Num(10)), "20%")

\* C3 amended: the formatter appends "%" to the percent parameter. For name
\* "A", value 10 and percent 20 (the number) it returns the listed labels with
\* "20%"; for percent "20%" (the string) the percentage is shown as "20%%" in
\* the percent, key_percent and key_value_percent labels, and the key, value,
\* key_value and unrecognized-type labels are as listed.
C3_PieLabels ==
  /\ PieLabelled(ParamsA20) =>
       label.text = ListedPieLabel(formData.labelType,
                                   formatNumber(formData.numberFormat, Num(10)), "20%")
  /\ PieLabelled(ParamsA) =>
       label.text = ListedPieLabel(formData.labelType,
                                   formatNumber(formData.numberFormat, Num(10)), "20%%")

C3_Witness ==
  /\ PieLabelled(ParamsA)
  /\ formData.labelType = "key_value_percent"
  /\ formData.numberFormat = ".2f"
  /\ label.text = "A: 10.00 (20%%)"

\* C4: for numeric innerRadius and outerRadius the pie series radius is the
\* pair [innerRadius%, outerRadius%] when donut is enabled and the scalar
\* outerRadius% when it is disabled, and then innerRadius has no effect on
\* the ChartSpec.
C4_Radius ==
  (PieDone /\ formData.innerRadius.t = "number" /\ formData.outerRadius.t = "number") =>
    LET inner == ToString(formData.innerRadius.v) \o "%"
        outer == ToString(formData.outerRadius.v) \o "%"
        radius == chartOptions.series[1].radius
    IN  /\ formData.donut => radius = Arr(<<inner, outer>>)
        /\ ~formData.donut =>
             /\ radius = Str(outer)
             /\ \A i \in {0, 50, 99} :
                  chartOptions =
                    pieTransformProps([formData EXCEPT !.innerRadius = Num(i)],
                                      queriesData)

C4_Witness ==
  /\ PieDone
  /\ formData.donut
  /\ formData.innerRadius = Num(0)
  /\ formData.outerRadius = Num(100)
  /\ chartOptions.series[1].radius = Arr(<<"0%", "100%">>)

\* the legend anchor the spec lists for a legendOrientation value
ListedLegend(legendOrientation) ==
  CASE legendOrientation = "top" -> [orient |-> "horizontal", right |-> 0, top |-> 0]
    [] legendOrientation = "bottom" -> [orient |-> "horizontal", bottom |-> 0]
    [] legendOrientation = "left" -> [orient |-> "vertical", left |-> 0]
    [] OTHER -> [orient |-> "vertical", right |-> 0, top |-> 0]

\* C5: the legend orientation fields of the bar ChartSpec are a function of
\* legendOrientation alone: top -> horizontal with right and top, bottom ->
\* horizontal with bottom, left -> vertical with left, right -> vertical with
\* right and top, any other value -> the result of right.
C5_Legend ==
  (plugin = "bar" /\ pc = "render") =>
    /\ chartOptions.legend.show = formData.showLegend
    /\ [k \in (DOMAIN chartOptions.legend) \ {"show"} |-> chartOptions.legend[k]]
         = ListedLegend(formData.legendOrientation)

C5_Witness ==
  /\ plugin = "bar"
  /\ pc = "render"
  /\ formData.legendOrientation = "bogus"
  /\ ~formData.showLegend
  /\ chartOptions.legend = [show |-> FALSE, orient |-> "vertical", right |-> 0, top |-> 0]

\* every row has exactly the keys cols and m
TwoColumnRows(data, cols, m) ==
  /\ data # <<>>
  /\ Str(m) # cols
  /\ \A i \in DOMAIN data :
       /\ Len(data[i]) = 2
       /\ {Str(data[i][j][1]) : j \in DOMAIN data[i]} = {cols, Str(m)}

\* C7: for one or more rows that all have exactly the category key cols and one
\* metric key m, with invertBars false, the bar transform (both variants)
\* produces exactly one series, named m and encoded x = cols, y = m;
\* dataset.source is the input row sequence unchanged; the x axis is
\* categorical and the y axis is not.
C7_EndToEnd ==
  \A m \in Keys :
    (BarDone /\ ~formData.invertBars /\ TwoColumnRows(queriesData, formData.cols, m)) =>
      /\ Len(chartOptions.series) = 1
      /\ chartOptions.series[1].name = m
      /\ chartOptions.series[1].encode = [x |-> formData.cols, y |-> Str(m)]
      /\ chartOptions.dataset.source = queriesData
      /\ "type" \in DOMAIN chartOptions.xAxis
      /\ chartOptions.xAxis.type = "category"
      /\ "type" \notin DOMAIN chartOptions.yAxis

C7_Witness ==
  /\ BarDone
  /\ ~formData.invertBars
  /\ queriesData = <<RowA, RowB>>
  /\ formData.cols = Str("region")
  /\ Len(chartOptions.series) = 1
  /\ chartOptions.series[1].name = "sales"
  /\ chartOptions.dataset.source = <<RowA, RowB>>

BarLabelled == plugin \in {"bar", "barSimple"} /\ label # NoLabel
PieLabelledAny == plugin = "pie" /\ label # NoLabel

\* C8 as stated: for the pie labelType and for the bar seriesLabelsFormat, a
\* value outside the recognized set makes the formatter return the category
\* name.
C8_Original ==
  /\ (PieLabelledAny /\ formData.labelType \notin LabelTypes) =>
       label.text = label.params.name
  /\ (BarLabelled /\ formData.seriesLabelsFormat \notin SeriesLabelsFormats \cup {"default"}) =>
       label.text = label.params.name

\* C8 amended: for the pie labelType a value outside the recognized set makes
\* the formatter return the category name; for the bar seriesLabelsFormat a
\* value other than the three named formats makes the formatter return the
\* formatted value alone.
C8_Fallback ==
  /\ (PieLabelledAny /\ formData.labelType \notin LabelTypes) =>
       label.text = label.params.name
  /\ (BarLabelled /\ formData.seriesLabelsFormat \notin SeriesLabelsFormats) =>
       label.text = formatNumber(formData.numberFormat,
                                 Get(label.params.value, label.params.seriesName))

C8_Witness ==
  /\ BarLabelled
  /\ formData.seriesLabelsFormat = "bogus"
  /\ label.params.seriesName = "cost"
  /\ label.params.name = "B"
  /\ label.text = "20"

----------------------------------------------------------------------------
(* Properties of repeated invocation and of the render adapter *)

\* C6: invoking the pie or the bar transform again with the Rows and Options
\* of an earlier invocation yields a ChartSpec equal to the earlier one, field
\* by field and formatter by formatter, whatever was invoked in between; and
\* an invocation leaves the rows and options it was given as they were.
C6_Idempotent ==
  /\ [](( /\ pc = "render"
          /\ seen # NoSeen
          /\ seen.formData = formData
          /\ seen.data = queriesData ) => seen.chartOptions = chartOptions)
  /\ [][(pc = "host" /\ pc' = "render") =>
          (queriesData' = queriesData /\ formData' = formData)]_vars

C6_Witness ==
  /\ plugin = "bar"
  /\ pc = "render"
  /\ gen >= 3
  /\ seen # NoSeen
  /\ seen.formData = formData
  /\ seen.data = queriesData
  /\ seen.chartOptions = chartOptions
  /\ Len(chartOptions.series) = 1
  /\ Len(scales[formData.colorScheme]) = 3

SetOptionCalls == {i \in DOMAIN calls : calls[i].op = "setOption"}

\* C9: every application of a ChartSpec to the rendering-library instance is
\* setOption with notMerge = true, and after it the configuration the
\* instance holds is the ChartSpec applied last, with nothing of an earlier
\* ChartSpec left in it.
C9_FullReplace ==
  /\ \A i \in SetOptionCalls : calls[i].notMerge = TRUE
  /\ SetOptionCalls # {} =>
       LET last == calls[CHOOSE i \in SetOptionCalls : \A j \in SetOptionCalls : j <= i]
       IN  instances[last.inst].option = last.option

C9_Witness ==
  /\ plugin = "bar"
  /\ SetOptionCalls # {}
  /\ chartRef # 0
  /\ Len(instances[chartRef].applied) >= 2
  /\ Len(scales[formData.colorScheme]) >= 2
  /\ Len(instances[chartRef].option.series) = 1
  /\ instances[chartRef].option = chartOptions

\* the ChartSpec computed from the inputs the host supplied last
TransformOf(p, fd, data) ==
  CASE p = "pie" -> pieTransformProps(fd, data)
    [] p = "bar" -> barTransformProps(fd, data)
    [] OTHER -> barSimpleTransformProps(fd, data)

\* C10: once a refresh is processed the rendering library holds the ChartSpec
\* computed from the most recent Rows and Options; the ChartSpecs were applied
\* in the order of the refreshes, one application per refresh, none skipped.
C10_Latest ==
  /\ pc \in {"idle", "unmounted"} =>
       /\ chartRef # 0
       /\ instances[chartRef].option = TransformOf(plugin, formData, queriesData)
       /\ instances[chartRef].applied = [i \in 1..gen |-> i]
  /\ \A n \in DOMAIN instances :
       \A i, j \in DOMAIN instances[n].applied :
         i < j => instances[n].applied[i] < instances[n].applied[j]

C10_Witness ==
  /\ pc = "idle"
  /\ gen >= 3
  /\ chartRef # 0
  /\ instances[chartRef].applied = <<1, 2, 3>>
  /\ instances[chartRef].option = TransformOf(plugin, formData, queriesData)
  /\ formData # PieDefaults
  /\ plugin = "pie"

----------------------------------------------------------------------------
(* Properties of the render adapter over ChartSpec and size changes *)

\* C11: on one mounted surface the adapter creates the rendering-library
\* instance at most once; every setOption and resize call targets that one
\* instance, and getEchartInstance returns that same instance from its
\* creation on.
C11_OneInstance ==
  /\ [](/\ Len(instances) <= 1
        /\ \A i \in DOMAIN calls : calls[i].inst = 1 /\ chartRef = 1
        /\ Len(instances) = 1 => getEchartInstance = 1)
  /\ [][chartRef # 0 => getEchartInstance' = getEchartInstance]_vars

C11_Witness ==
  /\ pc = "idle"
  /\ Len(instances) = 1
  /\ getEchartInstance = 1
  /\ Len(instances[1].applied) >= 2
  /\ instances[1].width = 800
  /\ \E i \in DOMAIN calls : calls[i].op = "resize" /\ calls[i].inst = 1

\* C12: every change of width or height is followed by a resize of the
\* rendering surface to the new width and height: once the effects of a
\* render have run, the surface has the width and height supplied last.
C12_Resized ==
  /\ [](pc = "idle" =>
          /\ chartRef # 0
          /\ instances[chartRef].width = size.width
          /\ instances[chartRef].height = size.height)
  /\ \A s \in Sizes :
       (size = s /\ pc \in {"render", "effects"}) ~>
         (/\ chartRef # 0
          /\ instances[chartRef].width = s.width
          /\ instances[chartRef].height = s.height)

C12_Witness ==
  /\ pc = "idle"
  /\ size = [width |-> 800, height |-> 600]
  /\ chartRef # 0
  /\ instances[chartRef].width = 800
  /\ instances[chartRef].height = 600
  /\ calls = <<[op |-> "resize", inst |-> chartRef, width |-> 800, height |-> 600]>>

----------------------------------------------------------------------------
(* Properties of the series, axes and labels of the bar transform *)

\* the first row in which key k is seen, and its place among that row's keys
FirstRow(data, k) ==
  CHOOSE i \in DOMAIN data :
    /\ k \in Range(ObjectKeys(data[i]))
    /\ \A h \in 1..(i - 1) : k \notin Range(ObjectKeys(data[h]))

PlaceInRow(row, k) == CHOOSE j \in DOMAIN row : row[j][1] = k

\* key k is seen before key m when the rows are read in order
SeenBefore(data, k, m) ==
  LET rk == FirstRow(data, k)
      rm == FirstRow(data, m)
  IN  rk < rm \/ (rk = rm /\ PlaceInRow(data[rk], k) < PlaceInRow(data[rm], m))

\* C13: in the bar transform the sequence of series names is the Dimension
\* Set with the cols key removed: every observed key other than cols yields
\* exactly one series, cols yields none, no name occurs twice, and the series
\* come in the order in which their keys are first seen across the rows.
C13_SeriesOrder ==
  BarDone =>
    LET s == chartOptions.series
    IN  /\ SeriesNames = {k \in UnionKeys(queriesData) : Str(k) # formData.cols}
        /\ \A i, j \in DOMAIN s : i # j => s[i].name # s[j].name
        /\ \A i, j \in DOMAIN s :
             i < j => SeenBefore(queriesData, s[i].name, s[j].name)

C13_Witness ==
  /\ BarDone
  /\ plugin = "barSimple"
  /\ formData.cols = Str("region")
  /\ Len(queriesData) = 2
  /\ ObjectKeys(queriesData[1]) = <<"region", "cost">>
  /\ ObjectKeys(queriesData[2]) = <<"sales", "region", "cost">>
  /\ Len(chartOptions.series) = 2
  /\ chartOptions.series[1].name = "cost"
  /\ chartOptions.series[2].name = "sales"

\* C14: in every ChartSpec of the bar transform exactly one of xAxis and
\* yAxis is categorical: invertBars false gives xAxis type category, an empty
\* yAxis and every series encoded x = cols, y = its own key; invertBars true
\* gives the mirror image; the categorical axis' show flag is
\* seriesCategoriesShow whatever invertBars is.
C14_Axes ==
  BarDone =>
    LET s == chartOptions.series
        category == [type |-> "category", show |-> formData.seriesCategoriesShow]
    IN  /\ ("type" \in DOMAIN chartOptions.xAxis) # ("type" \in DOMAIN chartOptions.yAxis)
        /\ ~formData.invertBars =>
             /\ chartOptions.xAxis = category
             /\ chartOptions.yAxis = EmptyObj
             /\ \A i \in DOMAIN s :
                  s[i].encode = [x |-> formData.cols, y |-> Str(s[i].name)]
        /\ formData.invertBars =>
             /\ chartOptions.yAxis = category
             /\ chartOptions.xAxis = EmptyObj
             /\ \A i \in DOMAIN s :
                  s[i].encode = [y |-> formData.cols, x |-> Str(s[i].name)]

C14_Witness ==
  /\ BarDone
  /\ plugin = "bar"
  /\ formData.invertBars
  /\ ~formData.seriesCategoriesShow
  /\ formData.cols = Str("region")
  /\ chartOptions.yAxis = [type |-> "category", show |-> FALSE]
  /\ chartOptions.xAxis = EmptyObj
  /\ Len(chartOptions.series) = 2
  /\ chartOptions.series[2].encode = [y |-> Str("region"), x |-> Str("cost")]

\* a ChartSpec with the stack field of every series left out
WithoutStack(spec) ==
  [spec EXCEPT !.series =
     [i \in DOMAIN @ |-> [k \in (DOMAIN @[i]) \ {"stack"} |-> @[i][k]]]]

\* C15: in the richer bar variant, with stackSeries true every produced
\* series carries the same stack identifier, with stackSeries false no
\* produced series has a stack field, and the toggle changes nothing else in
\* the ChartSpec.
C15_Stack ==
  (plugin = "bar" /\ pc = "render") =>
    LET s == chartOptions.series
        toggled == barTransformProps([formData EXCEPT !.stackSeries = ~@], queriesData)
    IN  /\ formData.stackSeries =>
             \A i, j \in DOMAIN s :
               "stack" \in DOMAIN s[i] /\ s[i].stack = s[j].stack
        /\ ~formData.stackSeries => \A i \in DOMAIN s : "stack" \notin DOMAIN s[i]
        /\ WithoutStack(toggled) = WithoutStack(chartOptions)
        /\ WithoutStack(chartOptions) = chartOptions <=>
             (~formData.stackSeries \/ s = <<>>)

C15_Witness ==
  /\ plugin = "bar"
  /\ pc = "render"
  /\ formData.stackSeries
  /\ formData.invertBars
  /\ Len(chartOptions.series) = 2
  /\ chartOptions.series[1].stack = "totals"
  /\ chartOptions.series[2].stack = "totals"

\* C16: the bar label formatter, for a data point of series s in category c
\* whose row holds value v under key s, returns: default -> the formatted v
\* alone; seriesNameCategoryValue -> "s - c : <formatted v>"; categoryValue ->
\* "c : <formatted v>"; seriesNameValue -> "s : <formatted v>"; the value
\* shown is the row's entry for the series' own key.
C16_BarLabels ==
  (BarLabelled /\ label.params.seriesName \in Range(ObjectKeys(label.params.value))) =>
    LET s == label.params.seriesName
        c == label.params.name
        row == label.params.value
        v == row[PlaceInRow(row, s)][2]
        formatted == formatNumber(formData.numberFormat, v)
        f == formData.seriesLabelsFormat
    IN  /\ f = "default" => label.text = formatted
        /\ f = "seriesNameCategoryValue" =>
             label.text = s \o " - " \o c \o " : " \o formatted
        /\ f = "categoryValue" => label.text = c \o " : " \o formatted
        /\ f = "seriesNameValue" => label.text = s \o " : " \o formatted
        /\ (row = RowC /\ s = "sales" /\ formData.numberFormat = ".2f"
              /\ f = "seriesNameValue") => label.text = "sales : 10.00"

C16_Witness ==
  /\ BarLabelled
  /\ plugin = "bar"
  /\ formData.seriesLabelsFormat = "seriesNameValue"
  /\ formData.numberFormat = ".2f"
  /\ label.params.seriesName = "sales"
  /\ label.params.value = RowC
  /\ label.text = "sales : 10.00"

----------------------------------------------------------------------------
(* Properties of the pie series data and of the option handling *)

\* C17: the pie transform emits its NameValue pairs row by row: with rows
\* r_1..r_N and the Dimension Set keys k_1..k_K in first-seen order, pair
\* number (i-1)*K + j is {name: k_j, value: r_i[k_j]}; a key the row lacks
\* still gets its pair, with the value undefined.
C17_PieOrder ==
  PieDone =>
    LET d == chartOptions.series[1].data
        N == Len(queriesData)
        K == Cardinality(UnionKeys(queriesData))
    IN  /\ Len(d) = N * K
        /\ N > 0 =>
             /\ {d[j].name : j \in 1..K} = UnionKeys(queriesData)
             /\ \A j, h \in 1..K :
                  j < h => SeenBefore(queriesData, d[j].name, d[h].name)
        /\ \A i \in 1..N, j \in 1..K :
             LET pair == d[(i - 1) * K + j]
                 row == queriesData[i]
             IN  /\ pair.name = d[j].name
                 /\ pair.value =
                      IF pair.name \in Range(ObjectKeys(row))
                        THEN row[PlaceInRow(row, pair.name)][2]
                        ELSE undefined

C17_Witness ==
  /\ PieDone
  /\ queriesData = <<RowC, RowD>>
  /\ Len(chartOptions.series[1].data) = 6
  /\ chartOptions.series[1].data[3] = [name |-> "region", value |-> Str("A")]
  /\ chartOptions.series[1].data[4] = [name |-> "sales", value |-> undefined]
  /\ chartOptions.series[1].data[5] = [name |-> "cost", value |-> Num(20)]

\* the options the pie transform copies are in the ChartSpec as supplied
PieCopied ==
  LET fd == formData
      s == chartOptions.series[1]
  IN  /\ chartOptions.title.show = fd.showTitle
      /\ chartOptions.title.text = fd.chartTitle
      /\ chartOptions.title.subtext = fd.chartSubTitle
      /\ chartOptions.tooltip.show = fd.showTooltip
      /\ chartOptions.legend = [show |-> fd.showLegend, orient |-> fd.legendOrientation,
                                left |-> fd.legendHorizontal, top |-> fd.legendVertical]
      /\ s.label.show = fd.showLabels
      /\ s.label.position = fd.labelPosition
      /\ s.emphasis.label.show = fd.highlight
      /\ s.top = fd.marginTop /\ s.bottom = fd.marginBottom
      /\ s.right = fd.marginRight /\ s.left = fd.marginLeft

\* the pie radii are in the ChartSpec as the text of the value with "%"
\* appended, whatever the value is
PieRadiusText ==
  LET fd == formData
      r == chartOptions.series[1].radius
      text(x) == CASE x = undefined -> "undefined%"
                   [] x = Str("abc") -> "abc%"
                   [] x = Str("x") -> "x%"
                   [] x = Num(0) -> "0%"
                   [] x = Num(50) -> "50%"
                   [] x = Num(70) -> "70%"
                   [] x = Num(100) -> "100%"
  IN  r = IF fd.donut THEN Arr(<<text(fd.innerRadius), text(fd.outerRadius)>>)
                      ELSE Str(text(fd.outerRadius))

\* the options the bar transform copies are in the ChartSpec as supplied
BarCopied ==
  LET fd == formData
      s == chartOptions.series
  IN  /\ chartOptions.legend.show = fd.showLegend
      /\ chartOptions.tooltip.show = fd.showTooltip
      /\ \A i \in DOMAIN s :
           /\ s[i].label.show = fd.seriesLabelsShow
           /\ s[i].label.position = fd.seriesLabelsPosition
      /\ plugin = "bar" =>
           chartOptions.grid = [top |-> fd.marginTop, bottom |-> fd.marginBottom,
                                right |-> fd.marginRight, left |-> fd.marginLeft]

\* the strings that occur in a ChartSpec of the richer bar variant
BarStrings ==
  LET s == chartOptions.series
      text(x) == IF x.t = "string" THEN {x.v} ELSE {}
  IN  {chartOptions.legend.orient, "bar", "category"}
        \cup Range(chartOptions.dataset.dimensions)
        \cup UNION {{s[i].name, s[i].itemStyle.color} : i \in DOMAIN s}
        \cup UNION {text(s[i].label.position) : i \in DOMAIN s}
        \cup UNION {text(s[i].encode.x) \cup text(s[i].encode.y) : i \in DOMAIN s}
        \cup UNION {IF "stack" \in DOMAIN s[i] THEN {s[i].stack} ELSE {} : i \in DOMAIN s}
        \cup UNION {text(chartOptions.grid[k]) : k \in DOMAIN chartOptions.grid}

\* C18 as stated: neither transform validates option values; for every option
\* value, missing and wrongly typed ones included, the transform returns a
\* ChartSpec and the value appears in the ChartSpec uninterpreted.
C18_Original ==
  /\ PieDone => (PieCopied /\ PieRadiusText)
  /\ BarDone => BarCopied
  /\ (BarDone /\ plugin = "bar") => formData.legendOrientation \in BarStrings

\* C18 amended: neither transform validates option values and each returns a
\* ChartSpec for every option value, missing and wrongly typed ones included;
\* the options a transform copies appear in the ChartSpec as supplied
\* (undefined when missing) and the pie radii as their text with "%" appended;
\* the legendOrientation of the richer bar variant is mapped to an orient and
\* an anchor, an unrecognized value to the vertical legend anchored right and
\* top, and does not appear itself.
C18_PassThrough ==
  /\ PieDone => (PieCopied /\ PieRadiusText)
  /\ BarDone => BarCopied
  /\ (BarDone /\ plugin = "bar"
        /\ formData.legendOrientation \notin {"top", "bottom", "left"}) =>
       /\ chartOptions.legend = [show |-> formData.showLegend, orient |-> "vertical",
                                 right |-> 0, top |-> 0]
       /\ formData.legendOrientation = "bogus" =>
            formData.legendOrientation \notin BarStrings

C18_Witness ==
  /\ PieDone
  /\ ~formData.donut
  /\ formData.outerRadius = Str("abc")
  /\ formData.labelPosition = undefined
  /\ formData.marginTop = Num(5)
  /\ chartOptions.series[1].radius = Str("abc%")
  /\ chartOptions.series[1].label.position = undefined
  /\ chartOptions.series[1].top = Num(5)

----------------------------------------------------------------------------
(* Properties of the pie control panel *)

\* the values of a control that JavaScript takes as true
TruthyValues == {Bool(TRUE), Num(1), Str("yes")}

\* the control is there and holds a value taken as true
HoldsTruthy(name) ==
  /\ controls # undefined
  /\ name \in DOMAIN controls
  /\ "value" \in DOMAIN controls[name]
  /\ controls[name].value \in TruthyValues

\* C19: in the pie option schema each conditional control is visible exactly
\* when its governing boolean control is truthy, and hidden when that control
\* is false, unset or missing: chartTitle and chartSubTitle follow showTitle,
\* labels_outside and label_line follow show_labels, innerRadius follows
\* donut; no other control matters.
C19_Visibility ==
  /\ DOMAIN visible =
       {"chartTitle", "chartSubTitle", "labels_outside", "label_line", "innerRadius"}
  /\ visible.chartTitle = HoldsTruthy("showTitle")
  /\ visible.chartSubTitle = HoldsTruthy("showTitle")
  /\ visible.labels_outside = HoldsTruthy("show_labels")
  /\ visible.label_line = HoldsTruthy("show_labels")
  /\ visible.innerRadius = HoldsTruthy("donut")

C19_Witness ==
  /\ controls # undefined
  /\ DOMAIN controls = {"showTitle", "donut", "showLegend"}
  /\ controls.donut = [value |-> Bool(TRUE)]
  /\ controls.showTitle = EmptyObj
  /\ visible.innerRadius
  /\ ~visible.chartTitle
  /\ ~visible.label_line

----------------------------------------------------------------------------
(* Independence of the two triggers of the render adapter *)

\* the setOption and resize calls among the calls cs, in order
OpsOf(cs) ==
  LET made == SelectSeq(cs, LAMBDA c : c.op # "init")
  IN  [i \in DOMAIN made |-> made[i].op]

\* the instance holds the chartOptions object the component is rendered with
SpecApplied ==
  /\ instances[chartRef].applied # <<>>
  /\ instances[chartRef].applied[Len(instances[chartRef].applied)] = gen

\* the instance has the width and height the component is rendered with
SizeApplied ==
  /\ instances[chartRef].width = size.width
  /\ instances[chartRef].height = size.height

\* C20: the two triggers of the render adapter are independent: a render
\* with another width or height and the same ChartSpec makes a resize call
\* and no setOption call, and leaves the library configuration as it is; a
\* render with another ChartSpec and the same size makes a setOption call and
\* no resize call, and leaves the surface size as it is.
C20_Independent ==
  /\ [][(pc = "render" /\ pc' # "render" /\ chartRef # 0) =>
          /\ (SpecApplied /\ ~SizeApplied) => effects' = <<"resize">>
          /\ (~SpecApplied /\ SizeApplied) => effects' = <<"setOption">>]_vars
  /\ [][(pc = "effects" /\ pc' # "unmounted") =>
          /\ OpsOf(calls') \o effects' = OpsOf(calls) \o effects
          /\ (chartRef # 0 /\ Head(effects) = "resize") =>
               /\ instances'[chartRef].option = instances[chartRef].option
               /\ instances'[chartRef].applied = instances[chartRef].applied
          /\ (chartRef # 0 /\ Head(effects) = "setOption") =>
               /\ instances'[chartRef].width = instances[chartRef].width
               /\ instances'[chartRef].height = instances[chartRef].height]_vars

C20_Witness ==
  /\ pc = "idle"
  /\ gen = 2
  /\ chartRef # 0
  /\ OpsOf(calls) = <<"setOption">>
  /\ instances[chartRef].applied = <<1, 2>>
  /\ size = [width |-> 800, height |-> 300]
  /\ SizeApplied

----------------------------------------------------------------------------
(* Order of the two effects, and the lifetime of the instance *)

\* C21: resize is never called before the rendering-library instance exists:
\* on mount the instance is created and the first ChartSpec applied before
\* the first resize, and when a ChartSpec change and a size change arrive in
\* the same update the ChartSpec is applied first and the resize second.
C21_SetOptionFirst ==
  /\ (pc = "effects" /\ Head(effects) = "resize") =>
       /\ chartRef # 0
       /\ instances[chartRef].applied # <<>>
       /\ instances[chartRef].option = chartOptions
  /\ \A i \in DOMAIN calls :
       calls[i].op = "resize" =>
         /\ calls[i].inst \in DOMAIN instances
         /\ \A j \in DOMAIN calls : calls[j].op # "resize" => j < i
  /\ effects \in {<<>>, <<"setOption">>, <<"resize">>, <<"setOption", "resize">>}
  /\ \A i \in DOMAIN calls : calls[i].op = "init" => i = 1
  /\ (pc = "idle" /\ calls # <<>> /\ calls[1].op = "init") =>
       OpsOf(calls) = <<"setOption", "resize">>

C21_Witness ==
  /\ pc = "idle"
  /\ gen = 2
  /\ size = [width |-> 800, height |-> 600]
  /\ Len(calls) = 2
  /\ calls[1].op = "setOption"
  /\ calls[1].gen = 2
  /\ calls[2] = [op |-> "resize", inst |-> chartRef, width |-> 800, height |-> 600]

----------------------------------------------------------------------------
(* The two variants of the bar transform, empty rows, the pie label line *)

\* two label formatters return the same text for every data point
SameFormatter(f, g) ==
  \A params \in BarLabelParams : CallFormatter(f, params) = CallFormatter(g, params)

\* two series agree in name, type, encoding, colour and label settings
SameSeries(a, b) ==
  /\ a.name = b.name
  /\ a.type = b.type
  /\ a.encode = b.encode
  /\ a.itemStyle = b.itemStyle
  /\ a.label.show = b.label.show
  /\ a.label.position = b.label.position
  /\ SameFormatter(a.label.formatter, b.label.formatter)

\* C22: the two bar-transform variants agree: for all rows and options with
\* stackSeries false, dataset, xAxis, yAxis, legend.show, tooltip.show and
\* the series (names, order, encodings, label settings) of the richer variant
\* equal those of the simple variant; the richer variant only adds the
\* legend orientation fields, a tooltip value formatter and the grid margins.
C22_VariantsAgree ==
  (BarDone /\ ~formData.stackSeries) =>
    LET rich == IF plugin = "bar" THEN chartOptions
                ELSE barTransformProps(formData, queriesData)
        simple == IF plugin = "barSimple" THEN chartOptions
                  ELSE barSimpleTransformProps(formData, queriesData)
    IN  /\ rich.dataset = simple.dataset
        /\ rich.xAxis = simple.xAxis
        /\ rich.yAxis = simple.yAxis
        /\ rich.legend.show = simple.legend.show
        /\ rich.tooltip.show = simple.tooltip.show
        /\ Len(rich.series) = Len(simple.series)
        /\ \A i \in DOMAIN rich.series :
             /\ SameSeries(rich.series[i], simple.series[i])
             /\ DOMAIN rich.series[i] = DOMAIN simple.series[i]
        /\ DOMAIN rich = (DOMAIN simple) \cup {"grid"}
        /\ "grid" \notin DOMAIN simple
        /\ DOMAIN simple.legend = {"show"}
        /\ (DOMAIN rich.legend) \ {"show"} \in
             {{"orient", "left"}, {"orient", "bottom"}, {"orient", "right", "top"}}
        /\ DOMAIN simple.tooltip = {"show"}
        /\ DOMAIN rich.tooltip = {"show", "valueFormatter"}

C22_Witness ==
  /\ BarDone
  /\ plugin = "barSimple"
  /\ ~formData.stackSeries
  /\ formData.invertBars
  /\ ~formData.seriesCategoriesShow
  /\ formData.seriesLabelsFormat = "categoryValue"
  /\ Len(chartOptions.series) = 2
  /\ barTransformProps(formData, queriesData).series[2].name =
       chartOptions.series[2].name
  /\ barTransformProps(formData, queriesData).yAxis = chartOptions.yAxis

\* C23: for an empty row sequence both transforms return a ChartSpec: the
\* pie series data is empty, and the bar ChartSpec has empty
\* dataset.dimensions, empty dataset.source and no series.
C23_EmptyRows ==
  (pc = "render" /\ queriesData = <<>>) =>
    /\ chartOptions # NoSpec
    /\ plugin = "pie" =>
         /\ Len(chartOptions.series) = 1
         /\ chartOptions.series[1].data = <<>>
         /\ chartOptions.series[1].radius = pieRadius(formData.donut, formData.innerRadius,
                                                      formData.outerRadius)
    /\ plugin \in {"bar", "barSimple"} =>
         /\ chartOptions.dataset = [dimensions |-> <<>>, source |-> <<>>]
         /\ chartOptions.series = <<>>
         /\ chartOptions.legend.show = formData.showLegend

C23_Witness ==
  /\ plugin = "bar"
  /\ pc = "render"
  /\ queriesData = <<>>
  /\ formData.cols = undefined
  /\ chartOptions.series = <<>>
  /\ chartOptions.dataset.dimensions = <<>>
  /\ chartOptions.xAxis = [type |-> "category", show |-> TRUE]

\* C24: in the pie ChartSpec the label line is shown exactly when both
\* labelsOutside and labelLine are true, whatever showLabels is; the label's
\* show flag is showLabels and its position is labelPosition, with
\* labelsOutside and without.
C24_LabelLine ==
  PieDone =>
    LET s == chartOptions.series[1]
    IN  /\ s.labelLine = [show |-> (formData.labelsOutside /\ formData.labelLine)]
        /\ s.label.show = formData.showLabels
        /\ s.label.position = formData.labelPosition

C24_Witness ==
  /\ PieDone
  /\ ~formData.showLabels
  /\ ~formData.labelsOutside
  /\ formData.labelLine
  /\ formData.labelPosition = Str("inside")
  /\ chartOptions.series[1].labelLine = [show |-> FALSE]
  /\ chartOptions.series[1].label.show = FALSE
  /\ chartOptions.series[1].label.position = Str("inside")

\* C25: the render adapter has no action that disposes or replaces the
\* rendering-library instance: in every reachable state after creation, the
\* states after the surface is unmounted included, the instance created by
\* init is the one held and has not been disposed.
C25_NeverDisposed ==
  /\ [](chartRef # 0 =>
          /\ chartRef \in DOMAIN instances
          /\ ~instances[chartRef].disposed
          /\ \A i \in DOMAIN instances : ~instances[i].disposed)
  /\ [][chartRef # 0 =>
          /\ chartRef' = chartRef
          /\ Len(instances') = Len(instances)]_vars
  /\ [](pc = "unmounted" => chartRef # 0)

C25_Witness ==
  /\ pc = "unmounted"
  /\ ~divRef
  /\ chartRef = 1
  /\ ~instances[1].disposed
  /\ instances[1].option = chartOptions
  /\ Len(instances[1].applied) >= 2

====
